---- MODULE Spec2Model ----
(***************************************************************************)
(* Model of the two scripts of dlp-client:                                 *)
(*   dlp_hybrid_fs.py      the bulk run: walk a directory, filter, load    *)
(*                         and forward every file to a DLP hybrid job;     *)
(*   dlp_fs_inspection.py  inspect_file: read one file as raw bytes and    *)
(*                         inspect it synchronously.                       *)
(* The filesystem and the remote service are the environment: every call   *)
(* into them (isdir, walk, getsize, open/read, the client constructor, the *)
(* two remote calls) returns a nondeterministically chosen outcome.        *)
(* Strings that the code inspects (paths, extensions) are sequences of     *)
(* one-character strings; file contents are sequences of byte values.      *)
(***************************************************************************)
EXTENDS Integers, Sequences, FiniteSets, TLC

\* ------------------------------------------------------------------ bounds
\* Number of regular files the directory walk yields in one run.
MaxFiles == 2
\* Longest findings list the synchronous service returns.
MaxFindings == 1

\* ------------------------------------------------------- program constants
\* dlp_hybrid_fs.py:20   max_file_size_bytes = 1024 * 1024 * 1
max_file_size_bytes == 1048576

\* dlp_hybrid_fs.py:11
hybrid_job_name == "YOUR_HYBRID_JOB_NAME"

\* dlp_hybrid_fs.py:13 (the configured root; only its being a directory matters)
directory_to_scan == <<"d">>

\* dlp.HybridContentItem.BytesType members named by the script (lines 41,
\* 102, 108); the client library is taken to define them, so that naming
\* one never raises.
TEXT == "TEXT"
BYTES == "BYTES"

\* Values standing for a Python name that has not been assigned yet.
Unset == "<unset>"
NoSize == 0 - 1
NoContent == [kind |-> "unset", data |-> <<>>]

\* ------------------------------------------------------------- environment
\* Contents a read may return, over the bytes 'A' (65), the lead byte 0xC3
\* (195) and the continuation byte 0xA9 (169); 0xC3 0xA9 is a valid two-byte
\* character and each of the two alone is malformed UTF-8. The samples are:
\* empty, ASCII, a valid two-byte character, a stray continuation byte, a
\* truncated lead byte, and malformed bytes beside well-formed ones.
FileContents ==
    { <<>>, <<65>>, <<195, 169>>, <<169>>, <<195>>, <<65, 169>>, <<195, 65>>,
      <<65, 195, 169>> }

RECURSIVE SeqsUpTo(_, _)
SeqsUpTo(S, n) ==
    IF n = 0 THEN {<<>>}
    ELSE LET shorter == SeqsUpTo(S, n - 1)
         IN  shorter \cup {Append(s, x) : s \in {t \in shorter : Len(t) = n - 1}, x \in S}

\* Sizes os.path.getsize may report: small, at the limit, just above it.
FileSizes == {500, max_file_size_bytes, max_file_size_bytes + 1}

\* os.path.join(root, file) for a root that does not end in a separator.
join(root, file) == root \o <<"/">> \o file

\* Files os.walk may yield, as (root, file) pairs: under the root itself, and
\* one under a sub-directory whose own name holds a dot.
WalkEntries ==
    { <<directory_to_scan, <<"a", ".", "t", "x", "t">> >>,
      <<directory_to_scan, <<"a", ".", "T", "X", "T">> >>,
      <<directory_to_scan, <<".", "t", "x", "t">> >>,
      <<directory_to_scan, <<"b", ".", "b", "i", "n">> >>,
      <<join(directory_to_scan, <<"v", ".", "t", "x", "t">>), <<"a">> >> }

\* Values the operator of the script may give include_extensions (line 16).
ExtensionLists ==
    { <<>>,
      << <<".", "t", "x", "t">> >>,
      << <<".", "T", "X", "T">> >>,
      << <<".", "b", "i", "n">>, <<".", "t", "x", "t">> >> }

\* ------------------------------------------------------------ pure helpers
\* str.lower() on the characters of the model's alphabet.
LowerChar(c) ==
    CASE c = "A" -> "a"
      [] c = "B" -> "b"
      [] c = "I" -> "i"
      [] c = "N" -> "n"
      [] c = "T" -> "t"
      [] c = "V" -> "v"
      [] c = "X" -> "x"
      [] OTHER -> c

lower(s) == [i \in 1..Len(s) |-> LowerChar(s[i])]

\* str.rfind for a one-character needle, 1-based; 0 when absent (Python -1).
rfind(s, c) ==
    LET hits == {i \in 1..Len(s) : s[i] = c}
    IN  IF hits = {} THEN 0 ELSE CHOOSE i \in hits : \A j \in hits : j <= i

\* os.path.splitext(p)[1]: the text from the last dot of the last path
\* component, unless every character of the component before it is a dot.
splitext_ext(p) ==
    LET sepIndex == rfind(p, "/")
        dotIndex == rfind(p, ".")
    IN  IF dotIndex > sepIndex
           /\ \E i \in (sepIndex + 1)..(dotIndex - 1) : p[i] # "."
        THEN SubSeq(p, dotIndex, Len(p))
        ELSE <<>>

\* x in list (Python list membership, by equality).
InList(x, list) == \E i \in 1..Len(list) : list[i] = x

\* The condition of line 80.
ExtensionExcluded(exts, path) ==
    exts # <<>> /\ ~InList(lower(splitext_ext(path)), exts)

\* bytes.decode('utf-8', errors='ignore') on the bytes of FileContents: an ASCII byte is its
\* own code point, a lead byte 0xC2..0xDF followed by a continuation byte is
\* one code point, any other byte is malformed and dropped.
\* (No sample holds CR or LF, so text mode's newline translation changes
\* nothing.)
RECURSIVE decode_utf8_ignore(_)
decode_utf8_ignore(b) ==
    IF b = <<>> THEN <<>>
    ELSE IF b[1] < 128 THEN <<b[1]>> \o decode_utf8_ignore(Tail(b))
    ELSE IF b[1] \in 194..223 /\ Len(b) >= 2 /\ b[2] \in 128..191
         THEN <<(b[1] % 32) * 64 + (b[2] % 64)>> \o decode_utf8_ignore(Tail(Tail(b)))
    ELSE decode_utf8_ignore(Tail(b))

\* ------------------------------------------------------------------- state
VARIABLES
    \* ---- dlp_hybrid_fs.py
    pc,                 \* position of the bulk script
    include_extensions, \* line 16
    to_walk,            \* files os.walk has still to yield
    file_path,          \* line 77
    file_size,          \* line 87
    content,            \* lines 101 / 107: [kind, data]
    data_item_mode,     \* lines 102 / 108
    processed_count,    \* line 72
    skipped_count,      \* line 73
    summary,            \* the three numbers printed at lines 120-122
    \* observations of the current loop iteration (reset when the walk
    \* yields the next file)
    statted,            \* os.path.getsize was called on file_path
    opens,              \* open() calls made on file_path
    raw,                \* <<bytes>> the successful read returned, else <<>>
    sent,               \* requests handed to hybrid_inspect_dlp_job
    reports,            \* messages printed about file_path
    startup,            \* messages printed before the walk (never reset)
    \* observations of the whole run
    walked,             \* files yielded so far
    handled,            \* loop iterations completed
    accepted,           \* submissions the remote job accepted
    sink_errors,        \* submissions that raised
    \* ---- dlp_fs_inspection.py, one call of inspect_file
    ipc,                \* position inside inspect_file
    i_args,             \* [project_id, file_path, info_types, min_likelihood]
    i_content,          \* line 23
    i_request,          \* line 46
    i_read,             \* <<bytes>> f.read() returned, else <<>>
    i_sent,             \* requests handed to inspect_content
    i_out               \* lines printed

bulk_vars ==
    << pc, include_extensions, to_walk, file_path, file_size, content,
       data_item_mode, processed_count, skipped_count, summary, statted,
       opens, raw, sent, reports, startup, walked, handled, accepted,
       sink_errors >>

inspect_vars == << ipc, i_args, i_content, i_request, i_read, i_sent, i_out >>

vars == << bulk_vars, inspect_vars >>

\* ------------------------------------------------- dlp_hybrid_fs.py: state
\* State after the module-level assignments of lines 8-20.
BulkInit ==
    /\ pc = "client_init"
    /\ include_extensions \in ExtensionLists
    /\ to_walk \in 0..MaxFiles
    /\ file_path = <<>>
    /\ file_size = NoSize
    /\ content = NoContent
    /\ data_item_mode = Unset
    /\ processed_count = 0
    /\ skipped_count = 0
    /\ summary = <<>>
    /\ statted = FALSE
    /\ opens = 0
    /\ raw = <<>>
    /\ sent = <<>>
    /\ reports = <<>>
    /\ startup = <<>>
    /\ walked = 0
    /\ handled = 0
    /\ accepted = 0
    /\ sink_errors = 0

\* The bulk script is not running.
BulkIdle ==
    /\ pc = "idle"
    /\ include_extensions = <<>>
    /\ to_walk = 0
    /\ file_path = <<>>
    /\ file_size = NoSize
    /\ content = NoContent
    /\ data_item_mode = Unset
    /\ processed_count = 0
    /\ skipped_count = 0
    /\ summary = <<>>
    /\ statted = FALSE
    /\ opens = 0
    /\ raw = <<>>
    /\ sent = <<>>
    /\ reports = <<>>
    /\ startup = <<>>
    /\ walked = 0
    /\ handled = 0
    /\ accepted = 0
    /\ sink_errors = 0

\* inspect_file is not running.
InspectIdle ==
    /\ ipc = "idle"
    /\ i_args = <<>>
    /\ i_content = <<>>
    /\ i_request = <<>>
    /\ i_read = <<>>
    /\ i_sent = <<>>
    /\ i_out = <<>>

\* What one loop iteration leaves alone besides its own assignments.
ConfigUnchanged == UNCHANGED << include_extensions, summary, startup, inspect_vars >>

\* The iteration for file_path ends: control returns to the for statement.
EndIteration ==
    /\ handled' = handled + 1
    /\ pc' = "walk"

\* Variant of Skip: the message is printed and the loop continues, but the
\* increment of skipped_count is left out.
Skip_NoCount(message) ==
    /\ reports' = Append(reports, message)
    /\ skipped_count' = skipped_count
    /\ EndIteration

\* Lines 81-83, 89-91, 93-95, 110-112: print, skipped_count += 1, continue.
Skip(message) ==
    /\ reports' = Append(reports, message)
    /\ skipped_count' = skipped_count + 1
    /\ EndIteration

\* ----------------------------------------------- dlp_hybrid_fs.py: actions
\* Lines 25-30: construct the client; a failure prints and exits.
DlpClientInit ==
    /\ pc = "client_init"
    /\ \E constructed \in BOOLEAN :
          IF constructed
          THEN /\ pc' = "check_dir"
               /\ startup' = startup
          ELSE /\ pc' = "exited"
               /\ startup' = Append(startup, "client_error")
    /\ UNCHANGED << include_extensions, to_walk, file_path, file_size, content,
                    data_item_mode, processed_count, skipped_count, summary,
                    statted, opens, raw, sent, reports, walked, handled,
                    accepted, sink_errors, inspect_vars >>

\* Variant of CheckDirectory: the error is printed but exit() is left out.
CheckDirectory_NoExit ==
    /\ pc = "check_dir"
    /\ \E isdir \in BOOLEAN :
          IF isdir
          THEN startup' = Append(startup, "starting")
          ELSE startup' = Append(Append(startup, "starting"), "dir_error")
    /\ pc' = "walk"
    /\ processed_count' = 0
    /\ skipped_count' = 0
    /\ UNCHANGED << include_extensions, to_walk, file_path, file_size, content,
                    data_item_mode, summary, statted, opens, raw, sent, reports,
                    walked, handled, accepted, sink_errors, inspect_vars >>

\* Lines 66-73: the root must be a directory, else print and exit.
CheckDirectory ==
    /\ pc = "check_dir"
    /\ \E isdir \in BOOLEAN :
          IF isdir
          THEN /\ pc' = "walk"
               /\ startup' = Append(startup, "starting")
          ELSE /\ pc' = "exited"
               /\ startup' = Append(Append(startup, "starting"), "dir_error")
    /\ processed_count' = 0
    /\ skipped_count' = 0
    /\ UNCHANGED << include_extensions, to_walk, file_path, file_size, content,
                    data_item_mode, summary, statted, opens, raw, sent, reports,
                    walked, handled, accepted, sink_errors, inspect_vars >>

\* Lines 75-77: os.walk yields the next regular file.
WalkNext ==
    /\ pc = "walk"
    /\ to_walk > 0
    /\ \E entry \in WalkEntries :
          file_path' = join(entry[1], entry[2])
    /\ to_walk' = to_walk - 1
    /\ walked' = walked + 1
    /\ statted' = FALSE
    /\ opens' = 0
    /\ raw' = <<>>
    /\ sent' = <<>>
    /\ reports' = <<>>
    /\ pc' = "ext_filter"
    /\ UNCHANGED << file_size, content, data_item_mode, processed_count,
                    skipped_count, handled, accepted, sink_errors >>
    /\ ConfigUnchanged

\* Line 75: os.walk is exhausted, the loops end.
WalkEnd ==
    /\ pc = "walk"
    /\ to_walk = 0
    /\ pc' = "summary"
    /\ UNCHANGED << to_walk, file_path, file_size, content, data_item_mode,
                    processed_count, skipped_count, statted, opens, raw, sent,
                    reports, walked, handled, accepted, sink_errors >>
    /\ ConfigUnchanged

\* Variant of ExtensionFilter: the skip is printed and counted but the
\* continue is left out, so the size check still runs.
ExtensionFilter_NoContinue ==
    /\ pc = "ext_filter"
    /\ IF ExtensionExcluded(include_extensions, file_path)
       THEN /\ reports' = Append(reports, "skip_extension")
            /\ skipped_count' = skipped_count + 1
       ELSE UNCHANGED << reports, skipped_count >>
    /\ pc' = "size_check"
    /\ UNCHANGED << to_walk, file_path, file_size, content, data_item_mode,
                    processed_count, statted, opens, raw, sent, walked,
                    handled, accepted, sink_errors >>
    /\ ConfigUnchanged

\* Lines 79-83: the extension allow-list.
ExtensionFilter ==
    /\ pc = "ext_filter"
    /\ IF ExtensionExcluded(include_extensions, file_path)
       THEN Skip("skip_extension")
       ELSE /\ pc' = "size_check"
            /\ UNCHANGED << reports, skipped_count, handled >>
    /\ UNCHANGED << to_walk, file_path, file_size, content, data_item_mode,
                    processed_count, statted, opens, raw, sent, walked,
                    accepted, sink_errors >>
    /\ ConfigUnchanged

\* Variant of SizeCheck: the comparison is >= instead of >.
SizeCheck_OffByOne ==
    /\ pc = "size_check"
    /\ statted' = TRUE
    /\ \/ /\ file_size' = file_size
          /\ Skip("stat_error")
       \/ \E size \in FileSizes :
             /\ file_size' = size
             /\ IF size >= max_file_size_bytes
                THEN Skip("skip_size")
                ELSE /\ pc' = "read_text"
                     /\ UNCHANGED << reports, skipped_count, handled >>
    /\ UNCHANGED << to_walk, file_path, content, data_item_mode,
                    processed_count, opens, raw, sent, walked, accepted,
                    sink_errors >>
    /\ ConfigUnchanged

\* Lines 85-95: query the size; an OSError or a size over the limit skips.
SizeCheck ==
    /\ pc = "size_check"
    /\ statted' = TRUE
    /\ \/ /\ file_size' = file_size
          /\ Skip("stat_error")
       \/ \E size \in FileSizes :
             /\ file_size' = size
             /\ IF size > max_file_size_bytes
                THEN Skip("skip_size")
                ELSE /\ pc' = "read_text"
                     /\ UNCHANGED << reports, skipped_count, handled >>
    /\ UNCHANGED << to_walk, file_path, content, data_item_mode,
                    processed_count, opens, raw, sent, walked, accepted,
                    sink_errors >>
    /\ ConfigUnchanged

\* Well-formed UTF-8 over the bytes of FileContents: nothing would be dropped by the decoder.
RECURSIVE utf8_valid(_)
utf8_valid(b) ==
    IF b = <<>> THEN TRUE
    ELSE IF b[1] < 128 THEN utf8_valid(Tail(b))
    ELSE IF b[1] \in 194..223 /\ Len(b) >= 2 /\ b[2] \in 128..191
         THEN utf8_valid(Tail(Tail(b)))
    ELSE FALSE

\* Variant of ReadText: the file is decoded with errors='strict', so bytes
\* that were read but are malformed raise and enter the fallback.
ReadText_Strict ==
    /\ pc = "read_text"
    /\ opens' = opens + 1
    /\ \/ /\ pc' = "read_bytes"
          /\ UNCHANGED << content, data_item_mode, raw >>
       \/ \E b \in FileContents :
             IF utf8_valid(b)
             THEN /\ content' = [kind |-> "str", data |-> decode_utf8_ignore(b)]
                  /\ data_item_mode' = TEXT
                  /\ raw' = <<b>>
                  /\ pc' = "send"
             ELSE /\ raw' = <<b>>
                  /\ pc' = "read_bytes"
                  /\ UNCHANGED << content, data_item_mode >>
    /\ UNCHANGED << to_walk, file_path, file_size, processed_count,
                    skipped_count, statted, sent, reports, walked, handled,
                    accepted, sink_errors >>
    /\ ConfigUnchanged

\* Lines 98-102: open as UTF-8 text with errors='ignore' and read it all. An
\* exception from open or read leaves content unassigned and enters the
\* handler of line 104.
ReadText ==
    /\ pc = "read_text"
    /\ opens' = opens + 1
    /\ \/ /\ pc' = "read_bytes"
          /\ UNCHANGED << content, data_item_mode, raw >>
       \/ \E b \in FileContents :
             /\ content' = [kind |-> "str", data |-> decode_utf8_ignore(b)]
             /\ data_item_mode' = TEXT
             /\ raw' = <<b>>
             /\ pc' = "send"
    /\ UNCHANGED << to_walk, file_path, file_size, processed_count,
                    skipped_count, statted, sent, reports, walked, handled,
                    accepted, sink_errors >>
    /\ ConfigUnchanged

\* Lines 104-112: the fallback, open in binary mode and read it all; an
\* exception here skips the file.
ReadBytes ==
    /\ pc = "read_bytes"
    /\ opens' = opens + 1
    /\ \/ /\ Skip("read_error")
          /\ UNCHANGED << content, data_item_mode, raw >>
       \/ \E b \in FileContents :
             /\ content' = [kind |-> "bytes", data |-> b]
             /\ data_item_mode' = BYTES
             /\ raw' = <<b>>
             /\ pc' = "send"
             /\ UNCHANGED << reports, skipped_count, handled >>
    /\ UNCHANGED << to_walk, file_path, file_size, processed_count, statted,
                    sent, walked, accepted, sink_errors >>
    /\ ConfigUnchanged

\* Lines 37-47: the request payload built by send_to_hybrid_job.
HybridRequest(path, data) ==
    [ name |-> hybrid_job_name,
      content |-> data,
      data_item_mode |-> TEXT,
      file_path |-> path ]

\* Variant of SendToHybridJob: the except clauses are left out, so an error
\* of the remote call ends the script.
SendToHybridJob_Uncaught ==
    /\ pc = "send"
    /\ sent' = Append(sent, HybridRequest(file_path, content))
    /\ \E outcome \in {"accepted", "GoogleAPIError", "Exception"} :
          IF outcome = "accepted"
          THEN /\ reports' = Append(reports, "sent")
               /\ accepted' = accepted + 1
               /\ sink_errors' = sink_errors
               /\ pc' = "count"
          ELSE /\ reports' = reports
               /\ accepted' = accepted
               /\ sink_errors' = sink_errors + 1
               /\ pc' = "crashed"
    /\ UNCHANGED << to_walk, file_path, file_size, content, data_item_mode,
                    processed_count, skipped_count, statted, opens, raw,
                    walked, handled >>
    /\ ConfigUnchanged

\* Lines 33-62 (called at line 115): build the request, call the remote job,
\* print the result; GoogleAPIError and any other Exception are caught.
SendToHybridJob ==
    /\ pc = "send"
    /\ sent' = Append(sent, HybridRequest(file_path, content))
    /\ \E outcome \in {"accepted", "GoogleAPIError", "Exception"} :
          CASE outcome = "accepted" ->
                  /\ reports' = Append(reports, "sent")
                  /\ accepted' = accepted + 1
                  /\ sink_errors' = sink_errors
            [] outcome = "GoogleAPIError" ->
                  /\ reports' = Append(reports, "api_error")
                  /\ accepted' = accepted
                  /\ sink_errors' = sink_errors + 1
            [] outcome = "Exception" ->
                  /\ reports' = Append(reports, "unexpected_error")
                  /\ accepted' = accepted
                  /\ sink_errors' = sink_errors + 1
    /\ pc' = "count"
    /\ UNCHANGED << to_walk, file_path, file_size, content, data_item_mode,
                    processed_count, skipped_count, statted, opens, raw,
                    walked, handled >>
    /\ ConfigUnchanged

\* Line 116: processed_count += 1, then the next iteration.
CountProcessed ==
    /\ pc = "count"
    /\ processed_count' = processed_count + 1
    /\ EndIteration
    /\ UNCHANGED << to_walk, file_path, file_size, content, data_item_mode,
                    skipped_count, statted, opens, raw, sent, reports, walked,
                    accepted, sink_errors >>
    /\ ConfigUnchanged

\* Lines 118-123: the scan summary.
Summary ==
    /\ pc = "summary"
    /\ summary' = << processed_count + skipped_count, processed_count,
                     skipped_count >>
    /\ pc' = "finished"
    /\ UNCHANGED << include_extensions, to_walk, file_path, file_size, content,
                    data_item_mode, processed_count, skipped_count, statted,
                    opens, raw, sent, reports, startup, walked, handled,
                    accepted, sink_errors, inspect_vars >>

BulkNext ==
    \/ DlpClientInit
    \/ CheckDirectory
    \/ WalkNext
    \/ WalkEnd
    \/ ExtensionFilter
    \/ SizeCheck
    \/ ReadText
    \/ ReadBytes
    \/ SendToHybridJob
    \/ CountProcessed
    \/ Summary

\* ----------------------------------------------- dlp_fs_inspection.py
\* Arguments a caller may pass to inspect_file (lines 91-100 give one such
\* call).
ProjectIds == {"your-gcp-project-id"}
InspectPaths == {"test_scan_file.txt", "missing.txt"}
InfoTypeLists ==
    { <<>>,
      <<"EMAIL_ADDRESS">>,
      <<"EMAIL_ADDRESS", "PHONE_NUMBER", "US_SOCIAL_SECURITY_NUMBER">> }
Likelihoods == {"POSSIBLE", "VERY_LIKELY"}

\* Findings the remote service may return: the fields inspect_file prints.
\* byte_range, codeword_info and content_locations are empty (falsy) or not.
Findings ==
    [ info_type : {"EMAIL_ADDRESS"},
      likelihood : {"LIKELY"},
      byte_range : {<<>>, <<19, 35>>},
      codeword_info : {<<>>, <<"codeword">>},
      content_locations : {<<>>, <<"location">>} ]

FindingLists == SeqsUpTo(Findings, MaxFindings)

\* State at the call of inspect_file.
InspectInit ==
    /\ ipc = "client"
    /\ i_args \in [ project_id : ProjectIds,
                    file_path : InspectPaths,
                    info_types : InfoTypeLists,
                    min_likelihood : Likelihoods ]
    /\ i_content = <<>>
    /\ i_request = <<>>
    /\ i_read = <<>>
    /\ i_sent = <<>>
    /\ i_out = <<>>

\* print(...): one output line, its kind and the values formatted into it.
Line(kind, values) == [kind |-> kind, values |-> values]

\* Line 18: the client constructor, outside every try block: an exception
\* it raises leaves inspect_file.
InspectClient ==
    /\ ipc = "client"
    /\ \E constructed \in BOOLEAN :
          ipc' = IF constructed THEN "read" ELSE "raised"
    /\ UNCHANGED << i_args, i_content, i_request, i_read, i_sent, i_out,
                    bulk_vars >>

\* Variant of InspectReadFile: the handlers print but do not return.
InspectReadFile_NoReturn ==
    /\ ipc = "read"
    /\ \/ /\ i_out' = Append(i_out, Line("file_not_found", <<i_args.file_path>>))
          /\ ipc' = "build"
          /\ UNCHANGED << i_content, i_read >>
       \/ /\ i_out' = Append(i_out, Line("read_error", <<i_args.file_path>>))
          /\ ipc' = "build"
          /\ UNCHANGED << i_content, i_read >>
       \/ \E b \in FileContents :
             /\ i_content' = b
             /\ i_read' = <<b>>
             /\ ipc' = "build"
             /\ i_out' = i_out
    /\ UNCHANGED << i_args, i_request, i_sent, bulk_vars >>

\* Lines 21-29: read the whole file in binary mode; FileNotFoundError and
\* any other Exception print a message and return.
InspectReadFile ==
    /\ ipc = "read"
    /\ \/ /\ i_out' = Append(i_out, Line("file_not_found", <<i_args.file_path>>))
          /\ ipc' = "returned"
          /\ UNCHANGED << i_content, i_read >>
       \/ /\ i_out' = Append(i_out, Line("read_error", <<i_args.file_path>>))
          /\ ipc' = "returned"
          /\ UNCHANGED << i_content, i_read >>
       \/ \E b \in FileContents :
             /\ i_content' = b
             /\ i_read' = <<b>>
             /\ ipc' = "build"
             /\ i_out' = i_out
    /\ UNCHANGED << i_args, i_request, i_sent, bulk_vars >>

\* Lines 33-50: the InspectContentRequest.
InspectRequest(project_id, info_types, min_likelihood, data) ==
    [ parent |-> <<"projects/", project_id, "/locations/global">>,
      inspect_config |->
          [ info_types |-> [i \in 1..Len(info_types) |-> [name |-> info_types[i]]],
            min_likelihood |-> min_likelihood ],
      item |-> [byte_item |-> [type |-> "BYTES_TYPE_UNSPECIFIED", data |-> data]] ]

\* Lines 31-52: build the request and announce the scan.
InspectBuildRequest ==
    /\ ipc = "build"
    /\ i_request' = << InspectRequest(i_args.project_id, i_args.info_types,
                                      i_args.min_likelihood, i_content) >>
    /\ i_out' = Append(i_out, Line("scanning", <<i_args.file_path>>))
    /\ ipc' = "call"
    /\ UNCHANGED << i_args, i_content, i_read, i_sent, bulk_vars >>

\* Lines 62-74: the lines printed for one finding (never its quote).
FindingLines(f) ==
    << Line("info_type", <<f.info_type>>), Line("likelihood", <<f.likelihood>>) >>
    \o (IF f.byte_range # <<>> THEN << Line("byte_range", f.byte_range) >> ELSE <<>>)
    \o (IF f.codeword_info # <<>> THEN << Line("codeword_info", f.codeword_info) >> ELSE <<>>)
    \o (IF f.content_locations # <<>>
        THEN << Line("content_locations", f.content_locations) >> ELSE <<>>)
    \o << Line("separator", <<>>) >>

\* Lines 59-76: the report of a response.
RECURSIVE AllFindingLines(_)
AllFindingLines(fs) ==
    IF fs = <<>> THEN <<>> ELSE FindingLines(Head(fs)) \o AllFindingLines(Tail(fs))

ResponseLines(path, fs) ==
    IF fs # <<>>
    THEN << Line("findings_in", <<path>>) >> \o AllFindingLines(fs)
    ELSE << Line("no_findings", <<path>>) >>

\* Lines 54-79: call inspect_content and print the findings; any Exception
\* is caught and printed.
InspectCall ==
    /\ ipc = "call"
    /\ i_sent' = Append(i_sent, i_request[1])
    /\ \/ i_out' = Append(i_out, Line("inspection_error", <<>>))
       \/ \E fs \in FindingLists :
             i_out' = i_out \o ResponseLines(i_args.file_path, fs)
    /\ ipc' = "returned"
    /\ UNCHANGED << i_args, i_content, i_request, i_read, bulk_vars >>

InspectNext ==
    \/ InspectClient
    \/ InspectReadFile
    \/ InspectBuildRequest
    \/ InspectCall

InspectStart == BulkIdle /\ InspectInit

\* One call of inspect_file of dlp_fs_inspection.py.
InspectSpec == InspectStart /\ [][InspectNext]_vars

Init == BulkInit /\ InspectIdle

Next == BulkNext

\* The bulk run of dlp_hybrid_fs.py.
Spec == Init /\ [][Next]_vars

\* The same run with the interpreter always taking its next step.
FairSpec == Spec /\ WF_vars(Next)
\* ------------------------------------------------------------------ claims
\* Positions of the bulk script inside one loop iteration.
InIteration == {"ext_filter", "size_check", "read_text", "read_bytes", "send", "count"}

\* Positions between iterations and after the loops.
BetweenIterations == {"walk", "summary", "finished"}

\* file_path, reports, statted, opens, raw and sent describe a file whose
\* extension filter has run.
Filtered == walked > 0 /\ pc # "ext_filter"

\* C1: in the bulk run a file is counted as processed only if its submission
\* was accepted, so the 'Files processed' number of the summary equals the
\* number of accepted submissions.
C1_ProcessedOnlyIfAccepted ==
    /\ processed_count <= accepted
    /\ pc = "finished" => summary[2] = accepted

\* C2: an error raised by the remote submission is neither retried nor fatal:
\* no file is submitted more than once, and once a submission has raised the
\* run still reaches the summary with every file of the walk handled.
C2_NoAbortNoRetry ==
    /\ [](Len(sent) <= 1)
    /\ (sink_errors > 0) ~> (pc = "finished" /\ to_walk = 0 /\ handled = walked)

\* A submission raised for one file and a later file was submitted and
\* accepted, and the summary was printed.
C2_Witness ==
    /\ pc = "finished"
    /\ sink_errors = 1
    /\ accepted = 1
    /\ handled = 2
    /\ reports = <<"sent">>

\* C3: every file the walk yields increments exactly one of processed_count
\* and skipped_count by one: between iterations their sum is the number of
\* files yielded, inside an iteration it is that number less the file in
\* hand, and the summary prints counts that add up to all files walked.
C3_OneOutcomePerFile ==
    /\ pc \in BetweenIterations => processed_count + skipped_count = walked
    /\ pc \in InIteration => processed_count + skipped_count = walked - 1
    /\ pc = "finished" => /\ to_walk = 0
                          /\ summary[2] + summary[3] = walked
                          /\ summary[1] = walked

\* Two files were walked, one was processed and one skipped.
C3_Witness ==
    /\ pc = "finished"
    /\ walked = 2
    /\ summary = <<2, 1, 1>>

\* One step of the size check, for the claim C4: either the stat failed, or
\* the size is over the limit and the file is skipped unread and unsent, or
\* the size is within the limit and the file goes on to the loader.
C4_SizeStep ==
    pc = "size_check" =>
        \/ reports' = Append(reports, "stat_error")
        \/ /\ file_size' > max_file_size_bytes
           /\ reports' = Append(reports, "skip_size")
           /\ skipped_count' = skipped_count + 1
           /\ pc' = "walk"
           /\ opens' = 0
           /\ sent' = <<>>
        \/ /\ file_size' <= max_file_size_bytes
           /\ reports' = reports
           /\ skipped_count' = skipped_count
           /\ pc' = "read_text"

\* C4: a file larger than max_file_size_bytes is never opened, read or
\* submitted and is counted as skipped; a file of at most that size is not
\* skipped for size.
C4_OversizeNeverRead ==
    /\ []((opens > 0 \/ sent # <<>>) =>
            (statted /\ file_size <= max_file_size_bytes))
    /\ [](InList("skip_size", reports) =>
            (file_size > max_file_size_bytes /\ opens = 0 /\ sent = <<>>))
    /\ [][C4_SizeStep]_vars

\* A file one byte over the limit was skipped for size, unopened.
C4_Witness ==
    /\ reports = <<"skip_size">>
    /\ file_size = max_file_size_bytes + 1
    /\ opens = 0
    /\ skipped_count = 1

\* No entry of the allow-list equals the extension of path, ignoring case.
AbsentIgnoringCase(exts, path) ==
    \A i \in 1..Len(exts) : lower(exts[i]) # lower(splitext_ext(path))

\* C5: the allow-list is matched case-insensitively on both sides: a file is
\* excluded for extension exactly when include_extensions is non-empty and
\* no entry equals the file's extension ignoring case.
C5_CaseInsensitiveAllowList ==
    Filtered =>
        (InList("skip_extension", reports)
            <=> (include_extensions # <<>>
                 /\ AbsentIgnoringCase(include_extensions, file_path)))

\* C6: a file excluded by extension is reported once, as an extension skip,
\* and its size is never queried.
C6_ExtensionBeforeSize ==
    /\ InList("skip_extension", reports) =>
          (reports = <<"skip_extension">> /\ ~statted /\ opens = 0 /\ sent = <<>>)
    /\ (Filtered /\ ExtensionExcluded(include_extensions, file_path)) =>
          (reports = <<"skip_extension">> /\ pc \in BetweenIterations)

\* A file was skipped for its extension with no stat made.
C6_Witness ==
    /\ reports = <<"skip_extension">>
    /\ ~statted
    /\ skipped_count = 1

\* C7: every request sent carries the content mode the loader recorded for
\* the file.
C7_ModeHintMatchesLoader ==
    \A i \in 1..Len(sent) : sent[i].data_item_mode = data_item_mode

\* C8: no file is walked, stat'd, read or submitted, no count is incremented
\* and no summary is printed unless the client was constructed and the root
\* is a directory; either failure ends the run.
C8_FailFast ==
    /\ (InList("client_error", startup) \/ InList("dir_error", startup)) =>
          pc = "exited"
    /\ (walked > 0 \/ statted \/ opens > 0 \/ sent # <<>> \/ processed_count > 0
          \/ skipped_count > 0 \/ summary # <<>> \/ pc \in InIteration) =>
          startup = <<"starting">>
    /\ pc = "exited" =>
          (walked = 0 /\ ~statted /\ opens = 0 /\ sent = <<>>
           /\ processed_count = 0 /\ skipped_count = 0 /\ summary = <<>>)

\* The root was not a directory although files were there to be walked, and
\* the run ended.
C8_Witness ==
    /\ pc = "exited"
    /\ startup = <<"starting", "dir_error">>
    /\ to_walk > 0

\* inspect_file printed that the file could not be read.
ReadFailed ==
    \E i \in 1..Len(i_out) : i_out[i].kind \in {"file_not_found", "read_error"}

\* C9: in inspect_file a failed open or read ends the call with the error
\* printed, nothing sent and nothing raised; a request is sent only after a
\* successful read and carries exactly the bytes read.
C9_NoRequestWithoutRead ==
    /\ ReadFailed => (ipc = "returned" /\ i_sent = <<>> /\ Len(i_out) = 1)
    /\ i_sent # <<>> =>
          /\ Len(i_sent) = 1
          /\ i_read # <<>>
          /\ i_sent[1].item.byte_item.data = i_read[1]

\* The read failed with an error other than FileNotFoundError and the call
\* returned.
C9_Witness ==
    /\ ipc = "returned"
    /\ Len(i_out) = 1
    /\ i_out[1].kind = "read_error"

====
